---- MODULE Spec2Model ----
(***************************************************************************)
(* A model of the AxoChat client (src/src/client.ts): the Client class,    *)
(* its transport handle, the frames it hands to the transport and the       *)
(* events it emits for the transport's notifications.                       *)
(*                                                                          *)
(* JavaScript values are records [k, v]: k is the kind of the value and v   *)
(* a sequence holding its content.  An object is the ordered sequence of    *)
(* its <<key, value>> properties.  A frame's text is the sequence of its    *)
(* JSON tokens, so JSON.stringify and JSON.parse are modelled by what they  *)
(* do: a property whose value is undefined is left out of the text, and a   *)
(* text that is no JSON value makes JSON.parse throw.                       *)
(***************************************************************************)
EXTENDS Integers, Sequences, FiniteSets, TLC

VARIABLES
    webSocket,   \* Client.webSocket: 0 while undefined, else the handle's id
    nsock,       \* how many transport handles connect() has constructed
    readyState,  \* the transport's own state of each handle
    listeners,   \* the event names that have a listener (EventEmitter.eventNames())
    registered,  \* per event, how many on-listeners (kept) and once-listeners
                 \* (dropped when called) its list holds
    lastOp,      \* the call or notification processed last
    emitted,     \* the events that call or notification emitted, in order
    out,         \* the transport operations it invoked, in order
    fault,       \* the exception it raised, "none" when it returned
    afterMalformed,  \* whether the notification before lastOp was a frame that is not JSON
    snap,        \* then, and after that frame itself: the session as it was before it
    built        \* the object lastOp gave to JSON.stringify, Undefined when it gave none

vars == <<webSocket, nsock, readyState, listeners, registered, lastOp, emitted, out, fault,
          afterMalformed, snap, built>>

\* How many transport handles a behaviour constructs.
MaxSockets == 2

Sockets == 1..MaxSockets

\* How many listeners a behaviour has registered for one event at a time.
MaxListeners == 2

-----------------------------------------------------------------------------
(* JavaScript values *)

Undefined == [k |-> "undefined", v |-> <<>>]
Null      == [k |-> "null", v |-> <<>>]
Str(s)    == [k |-> "str", v |-> <<s>>]
Num(n)    == [k |-> "num", v |-> <<n>>]
Bool(b)   == [k |-> "bool", v |-> <<b>>]
Obj(ps)   == [k |-> "obj", v |-> ps]
\* A frame's raw text and a transport handle, as event payloads.
Text(t)   == [k |-> "text", v |-> t]
Handle(h) == [k |-> "handle", v |-> <<h>>]

IsObj(x) == x.k = "obj"

RECURSIVE HasKey(_, _)
HasKey(ps, key) ==
    IF ps = <<>> THEN FALSE
    ELSE Head(ps)[1] = key \/ HasKey(Tail(ps), key)

RECURSIVE Lookup(_, _)
Lookup(ps, key) ==
    IF ps = <<>> THEN Undefined
    ELSE IF Head(ps)[1] = key THEN Head(ps)[2]
    ELSE Lookup(Tail(ps), key)

\* obj[key] = val: an existing property keeps its place, a new one goes last.
SetProp(ps, key, val) ==
    IF HasKey(ps, key)
    THEN [i \in 1..Len(ps) |-> IF ps[i][1] = key THEN <<key, val>> ELSE ps[i]]
    ELSE Append(ps, <<key, val>>)

\* x.key throws a TypeError when x is undefined or null.
Throws(x) == x.k \in {"undefined", "null"}

\* x.key otherwise: the property, or undefined (also for a primitive x).
GetProp(x, key) == IF IsObj(x) THEN Lookup(x.v, key) ELSE Undefined

-----------------------------------------------------------------------------
(* JSON text: a sequence of tokens *)

LB    == [k |-> "punct", v |-> <<"{">>]
RB    == [k |-> "punct", v |-> <<"}">>]
COLON == [k |-> "punct", v |-> <<":">>]
COMMA == [k |-> "punct", v |-> <<",">>]
\* Characters that start no JSON token.
Bad   == [k |-> "bad", v |-> <<"?">>]

IsLiteral(t) == t.k \in {"str", "num", "bool", "null"}

RECURSIVE Stringify(_)
RECURSIVE Members(_, _)

RECURSIVE Members_KeepUndefined(_, _)

\* Members, were a property whose value is undefined written as null.
Members_KeepUndefined(ps, first) ==
    IF ps = <<>> THEN <<>>
    ELSE LET p == Head(ps) IN
         (IF first THEN <<>> ELSE <<COMMA>>)
         \o <<Str(p[1]), COLON>>
         \o (IF p[2].k = "undefined" THEN <<Null>> ELSE Stringify(p[2]))
         \o Members_KeepUndefined(Tail(ps), FALSE)

\* The properties of an object, without those whose value is undefined.
Members(ps, first) ==
    IF ps = <<>> THEN <<>>
    ELSE LET p == Head(ps) IN
         IF p[2].k = "undefined" THEN Members(Tail(ps), first)
         ELSE (IF first THEN <<>> ELSE <<COMMA>>)
              \o <<Str(p[1]), COLON>> \o Stringify(p[2])
              \o Members(Tail(ps), FALSE)

\* JSON.stringify(x), for x an object or a JSON literal.
Stringify(x) ==
    IF IsObj(x) THEN <<LB>> \o Members(x.v, TRUE) \o <<RB>>
    ELSE <<x>>

NoParse == [ok |-> FALSE, val |-> Undefined, next |-> 0]

RECURSIVE ParseValue(_, _)
RECURSIVE ParseMembers(_, _, _)

\* The properties from token i on, up to the closing brace; acc holds those read.
ParseMembers(toks, i, acc) ==
    IF i + 1 > Len(toks) THEN NoParse
    ELSE IF toks[i].k # "str" \/ toks[i + 1] # COLON THEN NoParse
    ELSE LET r == ParseValue(toks, i + 2) IN
         IF ~r.ok \/ r.next > Len(toks) THEN NoParse
         ELSE LET ps == SetProp(acc, toks[i].v[1], r.val) IN
              IF toks[r.next] = RB
              THEN [ok |-> TRUE, val |-> Obj(ps), next |-> r.next + 1]
              ELSE IF toks[r.next] = COMMA
              THEN ParseMembers(toks, r.next + 1, ps)
              ELSE NoParse

\* The JSON value that starts at token i.
ParseValue(toks, i) ==
    IF i > Len(toks) THEN NoParse
    ELSE IF IsLiteral(toks[i])
    THEN [ok |-> TRUE, val |-> toks[i], next |-> i + 1]
    ELSE IF toks[i] = LB
    THEN IF i + 1 <= Len(toks) /\ toks[i + 1] = RB
         THEN [ok |-> TRUE, val |-> Obj(<<>>), next |-> i + 2]
         ELSE ParseMembers(toks, i + 1, <<>>)
    ELSE NoParse

\* JSON.parse(text): ok is FALSE where it throws a SyntaxError.
JSONParse(text) ==
    LET r == ParseValue(text, 1) IN
    IF r.ok /\ r.next = Len(text) + 1
    THEN [ok |-> TRUE, val |-> r.val]
    ELSE [ok |-> FALSE, val |-> Undefined]

-----------------------------------------------------------------------------
(* Events and the receive path *)

Ev(name, data) == [name |-> name, data |-> data]

\* EventEmitter.emit throws when an 'error' event has no listener.
EmitThrows(name, ls) == name = "error" /\ "error" \notin ls

\* A default case that rejects the kind.
NoDispatch_Throws == [hit |-> TRUE, throws |-> TRUE, ev |-> Ev("none", Undefined)]

\* The switch has no default case: a kind without a case emits nothing more.
NoDispatch == [hit |-> FALSE, throws |-> FALSE, ev |-> Ev("none", Undefined)]

\* { author: packet.c.author_info, content: packet.c.content }
MessageData(c) ==
    Obj(<< <<"author", GetProp(c, "author_info")>>, <<"content", GetProp(c, "content")>> >>)

\* Both fields read from connections.
UserCountData_Copied(c) ==
    Obj(<< <<"connections", GetProp(c, "connections")>>,
           <<"loggedIn", GetProp(c, "connections")>> >>)

\* { connections: packet.c.connections, loggedIn: packet.c.logged_in }
UserCountData(c) ==
    Obj(<< <<"connections", GetProp(c, "connections")>>,
           <<"loggedIn", GetProp(c, "logged_in")>> >>)

\* { sessionHash: packet.c.session_hash }
MojangInfoData(c) == Obj(<< <<"sessionHash", GetProp(c, "session_hash")>> >>)

\* The switch on packet.m: the typed event of the matching case; throws where
\* the case reads a property of a packet.c that is undefined or null.
Dispatch(packet) ==
    LET m == GetProp(packet, "m")
        c == GetProp(packet, "c")
    IN  IF m = Str("Error")
        THEN [hit |-> TRUE, throws |-> FALSE, ev |-> Ev("error", c)]
        ELSE IF m = Str("Message")
        THEN [hit |-> TRUE, throws |-> Throws(c),
              ev |-> Ev("message", MessageData(c))]
        ELSE IF m = Str("MojangInfo")
        THEN [hit |-> TRUE, throws |-> Throws(c),
              ev |-> Ev("mojangInfo", MojangInfoData(c))]
        ELSE IF m = Str("NewJWT")
        THEN [hit |-> TRUE, throws |-> FALSE, ev |-> Ev("newJWT", c)]
        ELSE IF m = Str("PrivateMessage")
        THEN [hit |-> TRUE, throws |-> Throws(c),
              ev |-> Ev("privateMessage", MessageData(c))]
        ELSE IF m = Str("Success")
        THEN [hit |-> TRUE, throws |-> FALSE, ev |-> Ev("success", c)]
        ELSE IF m = Str("UserCount")
        THEN [hit |-> TRUE, throws |-> Throws(c),
              ev |-> Ev("userCount", UserCountData(c))]
        ELSE NoDispatch

\* rawPacket emitted only once the text has been parsed.
HandleMessage_ParseFirst(data, ls) ==
    LET raw == Ev("rawPacket", Text(data))
        p   == JSONParse(data)
        pk  == Ev("packet", p.val)
    IN  IF ~p.ok THEN [events |-> <<>>, fault |-> "SyntaxError"]
        ELSE IF Throws(p.val) THEN [events |-> <<pk, raw>>, fault |-> "TypeError"]
        ELSE LET d == Dispatch(p.val) IN
             IF ~d.hit THEN [events |-> <<pk, raw>>, fault |-> "none"]
             ELSE IF d.throws THEN [events |-> <<pk, raw>>, fault |-> "TypeError"]
             ELSE IF EmitThrows(d.ev.name, ls)
             THEN [events |-> <<pk, raw>>, fault |-> "UnhandledError"]
             ELSE [events |-> <<pk, raw, d.ev>>, fault |-> "none"]

\* handleMessage, were the parse wrapped in a try that drops what it catches.
HandleMessage_Swallow(data, ls) ==
    LET raw == Ev("rawPacket", Text(data))
        p   == JSONParse(data)
        pk  == Ev("packet", p.val)
    IN  IF ~p.ok THEN [events |-> <<raw>>, fault |-> "none"]
        ELSE IF Throws(p.val) THEN [events |-> <<raw, pk>>, fault |-> "TypeError"]
        ELSE LET d == Dispatch(p.val) IN
             IF ~d.hit THEN [events |-> <<raw, pk>>, fault |-> "none"]
             ELSE IF d.throws THEN [events |-> <<raw, pk>>, fault |-> "TypeError"]
             ELSE IF EmitThrows(d.ev.name, ls)
             THEN [events |-> <<raw, pk>>, fault |-> "UnhandledError"]
             ELSE [events |-> <<raw, pk, d.ev>>, fault |-> "none"]

\* handleMessage(data) with listeners ls: the events it emits, in order, and
\* the exception that ends it ("none" when it returns).
HandleMessage(data, ls) ==
    LET raw == Ev("rawPacket", Text(data))
        p   == JSONParse(data)
        pk  == Ev("packet", p.val)
    IN  IF ~p.ok THEN [events |-> <<raw>>, fault |-> "SyntaxError"]
        ELSE IF Throws(p.val) THEN [events |-> <<raw, pk>>, fault |-> "TypeError"]
        ELSE LET d == Dispatch(p.val) IN
             IF ~d.hit THEN [events |-> <<raw, pk>>, fault |-> "none"]
             ELSE IF d.throws THEN [events |-> <<raw, pk>>, fault |-> "TypeError"]
             ELSE IF EmitThrows(d.ev.name, ls)
             THEN [events |-> <<raw, pk>>, fault |-> "UnhandledError"]
             ELSE [events |-> <<raw, pk, d.ev>>, fault |-> "none"]

-----------------------------------------------------------------------------
(* Inputs *)

\* String arguments of the outbound operations.
Strings == {"a", "b"}

\* loginJWT's second argument: given, or left out.
AllowArgs == {"true", "false", "omitted"}

\* Close codes a transport reports.
CloseCodes == {"1000", "1006"}

\* Events a subscriber registers for.
ListenEvents == {"error"}

\* Events the application emits itself, and the payload it gives them.
EmitEvents == {"error", "success"}

EmitData == Obj(<< <<"message", Str("Banned")>> >>)

InKinds == {"Error", "Message", "MojangInfo", "NewJWT", "PrivateMessage",
            "Success", "UserCount", "FutureThing"}

AuthorInfo == Obj(<< <<"name", Str("a")>>, <<"uuid", Str("u1")>> >>)

\* The payload the server sends with each kind.
ProperPayload(m) ==
    CASE m = "Error" -> Obj(<< <<"message", Str("Banned")>> >>)
      [] m \in {"Message", "PrivateMessage"} ->
             Obj(<< <<"author_info", AuthorInfo>>, <<"content", Str("a")>> >>)
      [] m = "MojangInfo" -> Obj(<< <<"session_hash", Str("a")>> >>)
      [] m = "NewJWT" -> Obj(<< <<"token", Str("a")>> >>)
      [] m = "Success" -> Obj(<< <<"reason", Str("Login")>> >>)
      [] m = "UserCount" -> Obj(<< <<"connections", Num(5)>>, <<"logged_in", Num(2)>> >>)
      [] OTHER -> Obj(<< <<"x", Str("a")>> >>)

\* Values of an inbound envelope's c: the kind's own payload and Undefined for
\* a frame without c; for some kinds also one of another shape, and null.
InPayloads(m) ==
    { ProperPayload(m), Undefined }
        \cup (IF m \in {"Message", "UserCount"}
              THEN { Obj(<< <<"content", Str("b")>>, <<"extra", Num(1)>> >>) } ELSE {})
        \cup (IF m \in {"Message", "Error"} THEN { Null } ELSE {})

Envelope(m, c) == Obj(<< <<"m", m>>, <<"c", c>> >>)

\* Frames that are one JSON object with a string m.
EnvelopeTexts ==
    UNION { { Stringify(Envelope(Str(m), c)) : c \in InPayloads(m) } : m \in InKinds }

\* Valid JSON that is no such object, or whose m is repeated.
OddTexts ==
    { <<Null>>, <<Num(5)>>, <<Str("Message")>>, <<LB, RB>>,
      Stringify(Envelope(Undefined, Obj(<< <<"content", Str("a")>> >>))),
      Stringify(Envelope(Num(5), Obj(<<>>))),
      <<LB, Str("m"), COLON, Str("FutureThing"), COMMA,
        Str("m"), COLON, Str("Success"), RB>> }

\* Texts that are not JSON.
MalformedTexts ==
    { <<>>, <<Bad>>, <<LB, Str("m"), COLON, Str("Message")>>,
      <<LB, Str("m"), COLON, Str("Success"), COMMA, RB>>,
      <<LB, Str("m"), COLON, Str("Error"), RB, RB>> }

InboundTexts == EnvelopeTexts \cup OddTexts \cup MalformedTexts

\* Arguments of a direct sendPacket call.
RawKinds == {"BanUser", "Ping"}
RawData  == { Undefined, Null, Obj(<< <<"user", Str("a")>> >>) }

Op3(name, a, b, c) == [op |-> name, a |-> a, b |-> b, c |-> c]

Op(name, a, b) == Op3(name, a, b, Undefined)

\* An event's list of listeners, as the numbers of its entries of either kind.
NoListeners == [on |-> 0, once |-> 0]

\* eventNames(): the events that have a listener.
EventNames(reg) == { e \in DOMAIN reg : reg[e] # NoListeners }

\* The listeners left once the events evs have been emitted: emit drops the
\* once-listeners of the event it calls.
AfterEmit(reg, evs) ==
    [e \in DOMAIN reg |->
        IF \E i \in DOMAIN evs : evs[i].name = e
        THEN [reg[e] EXCEPT !.once = 0] ELSE reg[e]]

\* No session remembered.
NoSnap == <<>>

\* The session as it is: the handle, the transports, the listeners.
Snapshot ==
    [webSocket |-> webSocket, nsock |-> nsock, readyState |-> readyState,
     listeners |-> listeners, registered |-> registered]

\* The record a message notification keeps of what came before it: when its
\* frame is not JSON, the session the frame found; when the frame before it
\* was not JSON, the session that one found.
HistFrame(r) ==
    /\ afterMalformed' = (lastOp.op = "message" /\ fault = "SyntaxError")
    /\ snap' = IF r.fault = "SyntaxError" THEN Snapshot
               ELSE IF lastOp.op = "message" /\ fault = "SyntaxError" THEN snap
               ELSE NoSnap

\* The record any other step keeps of what came before it.
Hist ==
    /\ afterMalformed' = (lastOp.op = "message" /\ fault = "SyntaxError")
    /\ snap' = NoSnap

-----------------------------------------------------------------------------
(* The session *)

Init ==
    /\ webSocket = 0
    /\ nsock = 0
    /\ readyState = [s \in Sockets |-> "NONE"]
    /\ listeners = {}
    /\ registered = [e \in ListenEvents |-> NoListeners]
    /\ lastOp = Op("new", Undefined, Undefined)
    /\ emitted = <<>>
    /\ out = <<>>
    /\ fault = "none"
    /\ afterMalformed = FALSE
    /\ snap = NoSnap
    /\ built = Undefined

\* connect, were it to keep a handle it already holds.
Connect_KeepFirst ==
    /\ nsock < MaxSockets
    /\ nsock' = nsock + 1
    /\ webSocket' = IF webSocket = 0 THEN nsock + 1 ELSE webSocket
    /\ readyState' = [readyState EXCEPT ![nsock + 1] = "CONNECTING"]
    /\ lastOp' = Op("connect", Undefined, Undefined)
    /\ Hist
    /\ emitted' = <<>>
    /\ out' = <<>>
    /\ built' = Undefined
    /\ fault' = "none"
    /\ UNCHANGED <<listeners, registered>>

\* connect(webSocketUrl): a new handle replaces the stored one; its open and
\* message notifications are subscribed to, and nothing else.
Connect ==
    /\ nsock < MaxSockets
    /\ nsock' = nsock + 1
    /\ webSocket' = nsock + 1
    /\ readyState' = [readyState EXCEPT ![nsock + 1] = "CONNECTING"]
    /\ lastOp' = Op("connect", Undefined, Undefined)
    /\ Hist
    /\ emitted' = <<>>
    /\ out' = <<>>
    /\ built' = Undefined
    /\ fault' = "none"
    /\ UNCHANGED <<listeners, registered>>

\* A call that sets event e's listeners to ls and does nothing else.
SetListeners(e, ls) ==
    /\ registered' = [registered EXCEPT ![e] = ls]
    /\ listeners' = EventNames(registered')
    /\ Hist
    /\ emitted' = <<>>
    /\ out' = <<>>
    /\ built' = Undefined
    /\ fault' = "none"
    /\ UNCHANGED <<webSocket, nsock, readyState>>

\* on(event, f) (also addListener, prependListener), inherited from
\* EventEmitter: one more entry for f, also when f has one already.
On ==
    \E e \in ListenEvents :
        /\ registered[e].on + registered[e].once < MaxListeners
        /\ lastOp' = Op("on", Str(e), Undefined)
        /\ SetListeners(e, [registered[e] EXCEPT !.on = @ + 1])

\* once(event, g) (also prependOnceListener), inherited from EventEmitter.
Once ==
    \E e \in ListenEvents :
        /\ registered[e].on + registered[e].once < MaxListeners
        /\ lastOp' = Op("once", Str(e), Undefined)
        /\ SetListeners(e, [registered[e] EXCEPT !.once = @ + 1])

\* off(event, l) / removeListener(event, l), l the on-listener f or the
\* once-listener g: one entry of l goes; nothing happens when l has none.
Off ==
    \E e \in ListenEvents, l \in {"on", "once"} :
        /\ lastOp' = Op("off", Str(e), Str(l))
        /\ SetListeners(e, IF registered[e][l] = 0 THEN registered[e]
                           ELSE [registered[e] EXCEPT ![l] = @ - 1])

\* removeAllListeners(event) and removeAllListeners().
RemoveAllListeners ==
    \/ \E e \in ListenEvents :
           /\ lastOp' = Op("removeAllListeners", Str(e), Undefined)
           /\ SetListeners(e, NoListeners)
    \/ /\ lastOp' = Op("removeAllListeners", Undefined, Undefined)
       /\ registered' = [e \in ListenEvents |-> NoListeners]
       /\ listeners' = {}
       /\ Hist
       /\ emitted' = <<>>
       /\ out' = <<>>
       /\ built' = Undefined
       /\ fault' = "none"
       /\ UNCHANGED <<webSocket, nsock, readyState>>

\* emit(event, data), public and inherited from EventEmitter, called by the
\* application: the listeners of the event are called, the once-listeners
\* dropped; for error without a listener the call throws.
Emit ==
    \E e \in EmitEvents :
        /\ lastOp' = Op("emit", Str(e), EmitData)
        /\ Hist
        /\ IF EmitThrows(e, listeners)
           THEN emitted' = <<>> /\ fault' = "UnhandledError"
           ELSE emitted' = <<Ev(e, EmitData)>> /\ fault' = "none"
        /\ registered' = AfterEmit(registered, emitted')
        /\ listeners' = EventNames(registered')
        /\ out' = <<>>
        /\ built' = Undefined
        /\ UNCHANGED <<webSocket, nsock, readyState>>

\* handleOpen, run by handle s's open notification: the payload is the handle
\* stored now.
TransportOpen ==
    \E s \in Sockets :
        /\ readyState[s] = "CONNECTING"
        /\ readyState' = [readyState EXCEPT ![s] = "OPEN"]
        /\ lastOp' = Op("open", Undefined, Num(s))
        /\ Hist
        /\ emitted' = <<Ev("open", Handle(webSocket))>>
        /\ registered' = AfterEmit(registered, emitted')
        /\ listeners' = EventNames(registered')
        /\ out' = <<>>
        /\ built' = Undefined
        /\ fault' = "none"
        /\ UNCHANGED <<webSocket, nsock>>

\* A decoder that keeps the text of a frame it could not parse: the frame
\* after it fails to parse too.
TransportMessage_Poisoned ==
    \E s \in Sockets, data \in InboundTexts :
        /\ readyState[s] = "OPEN"
        /\ lastOp' = Op("message", Text(data), Undefined)
        /\ LET r == IF lastOp.op = "message" /\ fault = "SyntaxError"
                    THEN [events |-> <<Ev("rawPacket", Text(data))>>, fault |-> "SyntaxError"]
                    ELSE HandleMessage(data, listeners) IN
               emitted' = r.events /\ fault' = r.fault /\ HistFrame(r)
        /\ registered' = AfterEmit(registered, emitted')
        /\ listeners' = EventNames(registered')
        /\ out' = <<>>
        /\ built' = Undefined
        /\ UNCHANGED <<webSocket, nsock, readyState>>

\* The message notification, were an Error frame to end the connection.
TransportMessage_AutoClose ==
    \E s \in Sockets, data \in InboundTexts :
        /\ readyState[s] = "OPEN"
        /\ lastOp' = Op("message", Text(data), Undefined)
        /\ LET r == HandleMessage(data, listeners) IN
               /\ emitted' = r.events
               /\ fault' = r.fault
               /\ HistFrame(r)
               /\ IF Len(r.events) = 3 /\ r.events[3].name = "error"
                  THEN /\ out' = <<[sock |-> webSocket, method |-> "close", text |-> <<>>]>>
                       /\ webSocket' = 0
                  ELSE /\ out' = <<>>
                       /\ UNCHANGED webSocket
        /\ registered' = AfterEmit(registered, emitted')
        /\ listeners' = EventNames(registered')
        /\ built' = Undefined
        /\ UNCHANGED <<nsock, readyState>>

\* handleMessage, run by handle s's message notification.
TransportMessage ==
    \E s \in Sockets, data \in InboundTexts :
        /\ readyState[s] = "OPEN"
        /\ lastOp' = Op("message", Text(data), Undefined)
        /\ LET r == HandleMessage(data, listeners) IN
               emitted' = r.events /\ fault' = r.fault /\ HistFrame(r)
        /\ registered' = AfterEmit(registered, emitted')
        /\ listeners' = EventNames(registered')
        /\ out' = <<>>
        /\ built' = Undefined
        /\ UNCHANGED <<webSocket, nsock, readyState>>

\* Handle s's close notification: connect subscribed no listener to it.
TransportClose ==
    \E s \in Sockets, code \in CloseCodes :
        /\ readyState[s] \in {"CONNECTING", "OPEN"}
        /\ readyState' = [readyState EXCEPT ![s] = "CLOSED"]
        /\ lastOp' = Op("close", Str(code), Num(s))
        /\ Hist
        /\ emitted' = <<>>
        /\ out' = <<>>
        /\ built' = Undefined
        /\ fault' = "none"
        /\ UNCHANGED <<webSocket, nsock, listeners, registered>>

\* What the transport's send may do with a frame: a handle that is not open
\* may refuse it by throwing.
SendOutcomes(rs) == IF rs = "OPEN" THEN {"none"} ELSE {"none", "TransportError"}

SendCall(h, text) == [sock |-> h, method |-> "send", text |-> text]

\* sendPacket, were it to refuse a handle that is not open yet.
SendPacket_OpenOnly(packetName, data) ==
    /\ IF webSocket = 0 \/ readyState[webSocket] # "OPEN"
       THEN /\ out' = <<>>
            /\ built' = Undefined
            /\ fault' = "TypeError"
       ELSE /\ built' = Envelope(Str(packetName), data)
            /\ out' = <<SendCall(webSocket, Stringify(Envelope(Str(packetName), data)))>>
            /\ fault' \in SendOutcomes(readyState[webSocket])
    /\ emitted' = <<>>
    /\ UNCHANGED <<webSocket, nsock, readyState, listeners, registered>>

\* sendPacket(packetName, data): this.webSocket.send(JSON.stringify({m, c})).
\* Reading send of an undefined handle throws a TypeError.
SendPacket(packetName, data) ==
    /\ IF webSocket = 0
       THEN /\ out' = <<>>
            /\ built' = Undefined
            /\ fault' = "TypeError"
       ELSE /\ built' = Envelope(Str(packetName), data)
            /\ out' = <<SendCall(webSocket, Stringify(Envelope(Str(packetName), data)))>>
            /\ fault' \in SendOutcomes(readyState[webSocket])
    /\ emitted' = <<>>
    /\ UNCHANGED <<webSocket, nsock, readyState, listeners, registered>>

\* allowMessages: boolean = true
AllowMessages_DefaultTrue(arg) == IF arg = "false" THEN Bool(FALSE) ELSE Bool(TRUE)

\* allowMessages: boolean = false
AllowMessages(arg) == IF arg = "true" THEN Bool(TRUE) ELSE Bool(FALSE)

LoginJWT ==
    \E token \in Strings, allow \in AllowArgs :
        /\ lastOp' = Op("loginJWT", Str(token), Str(allow))
        /\ Hist
        /\ SendPacket("LoginJWT", Obj(<< <<"token", Str(token)>>,
                                         <<"allow_messages", AllowMessages(allow)>> >>))

LoginMojang ==
    \E name \in Strings, uuid \in Strings, allow \in AllowArgs :
        /\ lastOp' = Op3("loginMojang", Str(name), Str(uuid), Str(allow))
        /\ Hist
        /\ SendPacket("LoginMojang", Obj(<< <<"name", Str(name)>>, <<"uuid", Str(uuid)>>,
                                            <<"allow_messages", AllowMessages(allow)>> >>))

RequestMojangInfo ==
    /\ lastOp' = Op("requestMojangInfo", Undefined, Undefined)
    /\ Hist
    /\ SendPacket("RequestMojangInfo", Undefined)

SendMessage ==
    \E content \in Strings :
        /\ lastOp' = Op("sendMessage", Str(content), Undefined)
        /\ Hist
        /\ SendPacket("Message", Obj(<< <<"content", Str(content)>> >>))

SendPrivateMessage ==
    \E receiver \in Strings, message \in Strings :
        /\ lastOp' = Op("sendPrivateMessage", Str(receiver), Str(message))
        /\ Hist
        /\ SendPacket("PrivateMessage", Obj(<< <<"message", Str(message)>>,
                                               <<"receiver", Str(receiver)>> >>))

RequestJWT ==
    /\ lastOp' = Op("requestJWT", Undefined, Undefined)
    /\ Hist
    /\ SendPacket("RequestJWT", Undefined)

RequestUserCount ==
    /\ lastOp' = Op("requestUserCount", Undefined, Undefined)
    /\ Hist
    /\ SendPacket("RequestUserCount", Undefined)

BanUser ==
    \E uuid \in Strings :
        /\ lastOp' = Op("banUser", Str(uuid), Undefined)
        /\ Hist
        /\ SendPacket("UnbanUser", Obj(<< <<"uuid", Str(uuid)>> >>))

UnbanUser ==
    \E uuid \in Strings :
        /\ lastOp' = Op("unbanUser", Str(uuid), Undefined)
        /\ Hist
        /\ SendPacket("UnbanUser", Obj(<< <<"uuid", Str(uuid)>> >>))

\* A direct call of sendPacket.
SendPacketCall ==
    \E kind \in RawKinds, data \in RawData :
        /\ lastOp' = Op("sendPacket", Str(kind), data)
        /\ Hist
        /\ SendPacket(kind, data)

\* disconnect(): the class defines no such member (nor does EventEmitter), so
\* the call throws a TypeError and does nothing.
Disconnect ==
    /\ lastOp' = Op("disconnect", Undefined, Undefined)
    /\ Hist
    /\ emitted' = <<>>
    /\ out' = <<>>
    /\ built' = Undefined
    /\ fault' = "TypeError"
    /\ UNCHANGED <<webSocket, nsock, readyState, listeners, registered>>

Next ==
    \/ Connect
    \/ On
    \/ Once
    \/ Off
    \/ RemoveAllListeners
    \/ Emit
    \/ TransportOpen
    \/ TransportMessage
    \/ TransportClose
    \/ LoginJWT
    \/ LoginMojang
    \/ RequestMojangInfo
    \/ SendMessage
    \/ SendPrivateMessage
    \/ RequestJWT
    \/ RequestUserCount
    \/ BanUser
    \/ UnbanUser
    \/ SendPacketCall
    \/ Disconnect

Spec == Init /\ [][Next]_vars

-----------------------------------------------------------------------------
(* Vocabulary of the properties *)

OutboundOps == {"loginJWT", "loginMojang", "requestMojangInfo", "sendMessage",
                "sendPrivateMessage", "requestJWT", "requestUserCount",
                "banUser", "unbanUser", "sendPacket"}

\* The wire text {"m": kind, "c": {fields}} written out token by token.
RECURSIVE FieldTokens(_)
FieldTokens(fs) ==
    IF fs = <<>> THEN <<>>
    ELSE <<Str(fs[1][1]), COLON, fs[1][2]>>
         \o (IF Len(fs) > 1 THEN <<COMMA>> ELSE <<>>) \o FieldTokens(Tail(fs))

WireWithPayload(kind, fs) ==
    <<LB, Str("m"), COLON, Str(kind), COMMA, Str("c"), COLON, LB>>
    \o FieldTokens(fs) \o <<RB, RB>>

WireNoPayload(kind) == <<LB, Str("m"), COLON, Str(kind), RB>>

\* The frame handled last, decoded, when lastOp is a message notification.
LastText   == lastOp.a.v
LastPacket == JSONParse(LastText).val
LastM      == GetProp(LastPacket, "m")
LastC      == GetProp(LastPacket, "c")

\* lastOp handled a frame that is one JSON object with a string m.
WellFormedFrame ==
    /\ lastOp.op = "message"
    /\ JSONParse(LastText).ok
    /\ IsObj(LastPacket)
    /\ LastM.k = "str"

\* The kinds the spec documents as recognized, and their typed events.
DocumentedKinds == {"Error", "Message", "PrivateMessage", "NewJWT", "Success", "UserCount"}

TypedName(m) ==
    CASE m = "Error" -> "error"
      [] m = "Message" -> "message"
      [] m = "PrivateMessage" -> "privateMessage"
      [] m = "NewJWT" -> "newJWT"
      [] m = "Success" -> "success"
      [] m = "UserCount" -> "userCount"
      [] m = "MojangInfo" -> "mojangInfo"
      [] OTHER -> "none"

\* The kinds that have a case in handleMessage's switch.
SwitchKinds == DocumentedKinds \cup {"MojangInfo"}

TypedNames == { TypedName(m) : m \in SwitchKinds }

\* The typed payload the documented field mapping gives for wire payload c.
MappedPayload(m, c) ==
    CASE m \in {"Message", "PrivateMessage"} ->
             Obj(<< <<"author", GetProp(c, "author_info")>>,
                    <<"content", GetProp(c, "content")>> >>)
      [] m = "UserCount" ->
             Obj(<< <<"connections", GetProp(c, "connections")>>,
                    <<"loggedIn", GetProp(c, "logged_in")>> >>)
      [] OTHER -> c

-----------------------------------------------------------------------------
(* C1 *)

\* The operations C1 names.
C1_Ops == {"loginJWT", "sendMessage", "sendPrivateMessage", "requestJWT",
           "requestUserCount", "banUser", "unbanUser", "sendPacket"}

\* C1: an outbound operation called on a session that holds no transport
\* handle, before any connect() or after disconnect(), fails (the TypeError
\* raised on reading send of the undefined handle is the NotConnected
\* condition) and hands no frame to any transport.
C1_NoHandleSendFails ==
    /\ [] ( (lastOp.op \in C1_Ops /\ webSocket = 0)
                => (fault = "TypeError" /\ out = <<>>) )
    /\ [][ (lastOp.op = "disconnect" /\ lastOp'.op \in C1_Ops)
               => (fault' = "TypeError" /\ out' = <<>>) ]_vars

-----------------------------------------------------------------------------
(* C2 *)

\* C2: on a session holding a handle, banUser(uuid) sends exactly one frame
\* {"m":"BanUser","c":{"user":uuid}} and unbanUser(uuid) exactly one frame
\* {"m":"UnbanUser","c":{"user":uuid}}.
C2_BanUnbanFrames ==
    /\ (lastOp.op = "banUser" /\ webSocket # 0)
           => out = <<SendCall(webSocket, WireWithPayload("BanUser", << <<"user", lastOp.a>> >>))>>
    /\ (lastOp.op = "unbanUser" /\ webSocket # 0)
           => out = <<SendCall(webSocket, WireWithPayload("UnbanUser", << <<"user", lastOp.a>> >>))>>

-----------------------------------------------------------------------------
(* C3 *)

C3_Expected ==
    CASE lastOp.op = "loginJWT" ->
             WireWithPayload("LoginJWT",
                 << <<"token", lastOp.a>>,
                    <<"allow_messages", Bool(lastOp.b = Str("true"))>> >>)
      [] lastOp.op = "sendMessage" ->
             WireWithPayload("Message", << <<"content", lastOp.a>> >>)
      [] lastOp.op = "sendPrivateMessage" ->
             WireWithPayload("PrivateMessage",
                 << <<"message", lastOp.b>>, <<"receiver", lastOp.a>> >>)
      [] lastOp.op = "requestJWT" -> WireNoPayload("RequestJWT")
      [] lastOp.op = "requestUserCount" -> WireNoPayload("RequestUserCount")

\* C3: on a session holding a handle, loginJWT, sendMessage, sendPrivateMessage,
\* requestJWT and requestUserCount each hand that handle exactly one frame, of
\* the documented kind and payload (allow_messages false when left out).
C3_DocumentedFrames ==
    (lastOp.op \in {"loginJWT", "sendMessage", "sendPrivateMessage",
                    "requestJWT", "requestUserCount"} /\ webSocket # 0)
        => out = <<SendCall(webSocket, C3_Expected)>>

C3_Witness ==
    /\ lastOp = Op("loginJWT", Str("a"), Str("omitted"))
    /\ webSocket # 0
    /\ Len(out) = 1
    /\ out[1].text = <<LB, Str("m"), COLON, Str("LoginJWT"), COMMA, Str("c"), COLON,
                       LB, Str("token"), COLON, Str("a"), COMMA,
                       Str("allow_messages"), COLON, Bool(FALSE), RB, RB>>

-----------------------------------------------------------------------------
(* C4 *)

\* C4: for an inbound frame of a documented kind, every typed event emitted
\* carries the wire payload under the documented field mapping, and when the
\* handler returns the one typed event of that kind was emitted.
C4_TypedPayloadMapping ==
    (WellFormedFrame /\ LastM.v[1] \in DocumentedKinds)
        => /\ \A i \in 3..Len(emitted) :
                  emitted[i] = Ev(TypedName(LastM.v[1]), MappedPayload(LastM.v[1], LastC))
           /\ fault = "none" => Len(emitted) = 3

C4_Witness ==
    /\ WellFormedFrame
    /\ LastM = Str("UserCount")
    /\ LastC = Obj(<< <<"connections", Num(5)>>, <<"logged_in", Num(2)>> >>)
    /\ Len(emitted) = 3
    /\ emitted[3] = Ev("userCount", Obj(<< <<"connections", Num(5)>>, <<"loggedIn", Num(2)>> >>))

-----------------------------------------------------------------------------
(* C5 *)

\* lastOp handled a well-formed frame whose kind has no case in the switch.
UnrecognizedFrame == WellFormedFrame /\ LastM.v[1] \notin SwitchKinds

\* C5: handling a well-formed frame whose kind has no case in the switch emits
\* rawPacket and packet and nothing else and raises no fault; as for every
\* frame, the step calls nothing on the transport and leaves the session's
\* state (the stored handle, the transports) as it was; of the listeners only
\* once-listeners go, which emit drops as it calls them.
C5_UnrecognizedKind ==
    /\ [](UnrecognizedFrame
            => /\ emitted = <<Ev("rawPacket", lastOp.a), Ev("packet", LastPacket)>>
               /\ fault = "none"
               /\ out = <<>>)
    /\ [][ lastOp'.op = "message"
             => UNCHANGED <<webSocket, nsock, readyState>> ]_vars

C5_Witness ==
    /\ WellFormedFrame
    /\ LastM = Str("FutureThing")
    /\ Len(emitted) = 2
    /\ emitted[2].name = "packet"
    /\ fault = "none"

-----------------------------------------------------------------------------
(* C6 *)

\* C6: for every inbound frame the events come in the order rawPacket, packet,
\* typed event: exactly one rawPacket with the unmodified raw text comes first,
\* at most one packet event second, at most one typed event third.
C6_EventOrder ==
    lastOp.op = "message"
        => /\ Len(emitted) \in 1..3
           /\ emitted[1] = Ev("rawPacket", lastOp.a)
           /\ Len(emitted) >= 2 => emitted[2].name = "packet"
           /\ Len(emitted) = 3 => emitted[3].name \in TypedNames

C6_Witness ==
    /\ lastOp.op = "message"
    /\ Len(emitted) = 3
    /\ emitted[1].name = "rawPacket"
    /\ emitted[2].name = "packet"
    /\ emitted[3].name = "message"

-----------------------------------------------------------------------------
(* C7 *)

\* C7: disconnect() does not fail, leaves the session without a handle, emits
\* no event and requests transport close at most once, however often it is
\* called in a row.
C7_DisconnectIdempotent ==
    lastOp.op = "disconnect"
        => /\ fault = "none"
           /\ webSocket = 0
           /\ emitted = <<>>
           /\ Len(out) <= 1

-----------------------------------------------------------------------------
(* C8 *)

\* C8: the close notification of the session's handle makes the session emit
\* exactly one close event, carrying the code the transport gave.
C8_CloseEvent ==
    (lastOp.op = "close" /\ lastOp.b = Num(webSocket))
        => emitted = <<Ev("close", lastOp.a)>>

-----------------------------------------------------------------------------
(* C9 *)

\* C9: the session holds a handle exactly when the most recent of connect(),
\* disconnect() and a close notification of its handle was connect(); stated
\* for the states right after construction and after each of these three, the
\* handle a close notification is about being the one last bound.
C9_HandleIffConnected ==
    /\ lastOp.op = "new" => webSocket = 0
    /\ lastOp.op = "connect" => webSocket # 0
    /\ lastOp.op = "disconnect" => webSocket = 0
    /\ (lastOp.op = "close" /\ lastOp.b = Num(nsock)) => webSocket = 0

-----------------------------------------------------------------------------
(* C10 *)

\* What a message notification with text data leaves behind when it finds the
\* session as s has it: its events, its outcome, no transport call, the handle
\* and the transports of s, the listeners of s less the once-listeners called.
FrameAlone(s, data) ==
    LET r == HandleMessage(data, s.listeners) IN
    [emitted |-> r.events, fault |-> r.fault, out |-> <<>>,
     webSocket |-> s.webSocket, nsock |-> s.nsock, readyState |-> s.readyState,
     registered |-> AfterEmit(s.registered, r.events)]

\* What lastOp has left behind.
LeftBehind ==
    [emitted |-> emitted, fault |-> fault, out |-> out,
     webSocket |-> webSocket, nsock |-> nsock, readyState |-> readyState,
     registered |-> registered]

\* C10: a well-formed frame handled right after a frame that is not JSON
\* leaves behind the events, payloads, outcome and session that the same
\* frame leaves when it is handled alone by the session as it was before the
\* frame that is not JSON (snap); and that frame changes neither the handle
\* nor a transport nor any listener but once-listeners of rawPacket, the one
\* event it emits.
C10_IsolationAcrossFrames ==
    /\ []((WellFormedFrame /\ afterMalformed)
            => LeftBehind = FrameAlone(snap, LastText))
    /\ [][ (lastOp'.op = "message" /\ fault' = "SyntaxError")
             => /\ UNCHANGED <<webSocket, nsock, readyState>>
                /\ snap' = Snapshot
                /\ \A e \in DOMAIN registered \ {"rawPacket"} :
                       registered'[e] = registered[e]
                /\ listeners' \ {"rawPacket"} = listeners \ {"rawPacket"} ]_vars

C10_Witness ==
    /\ WellFormedFrame
    /\ afterMalformed
    /\ snap # NoSnap
    /\ snap.listeners = {"error"}
    /\ LastM = Str("Message")
    /\ Len(emitted) = 3
    /\ emitted[3].name = "message"
    /\ fault = "none"

-----------------------------------------------------------------------------
(* C11 *)

\* C11: handling an inbound Error frame raises no fault out of the receive
\* path, whatever the set of subscribers, also when nobody listens for the
\* error event: it is delivered as the error event like any other typed event.
C11_ErrorFrameNoFault ==
    (WellFormedFrame /\ LastM = Str("Error"))
        => /\ fault = "none"
           /\ Len(emitted) = 3
           /\ emitted[3] = Ev("error", LastC)

-----------------------------------------------------------------------------
(* C12 *)

\* C12: the frame an outbound operation hands to the transport, fed back into
\* the decode step (JSON.parse), gives an envelope with the kind and the
\* payload the operation encoded; an operation without payload gives an
\* envelope that has the kind and no c at all.
C12_RoundTrip ==
    (lastOp.op \in OutboundOps /\ Len(out) = 1)
        => LET p == JSONParse(out[1].text) IN
           /\ IsObj(built)
           /\ p.ok
           /\ GetProp(p.val, "m") = GetProp(built, "m")
           /\ GetProp(p.val, "c") = GetProp(built, "c")
           /\ GetProp(built, "c") = Undefined
                  => p.val = Obj(<< <<"m", GetProp(built, "m")>> >>)

C12_Witness ==
    /\ lastOp.op = "requestJWT"
    /\ Len(out) = 1
    /\ built = Envelope(Str("RequestJWT"), Undefined)
    /\ JSONParse(out[1].text).val = Obj(<< <<"m", Str("RequestJWT")>> >>)

-----------------------------------------------------------------------------
(* C13 *)

\* C13: a typed event is emitted for an inbound frame exactly when its kind
\* is one of Error, Message, PrivateMessage, NewJWT, Success and UserCount,
\* and then it is the event of that kind; any other kind gives no typed event.
C13_TypedEventIffDocumented ==
    WellFormedFrame
        => /\ Len(emitted) <= 3
           /\ (Len(emitted) = 3) <=> (LastM.v[1] \in DocumentedKinds)
           /\ (Len(emitted) = 3) => (emitted[3].name = TypedName(LastM.v[1]))

-----------------------------------------------------------------------------
(* C14 *)

\* An inbound text that is JSON but has no string m.
LacksStringKind ==
    /\ lastOp.op = "message"
    /\ JSONParse(LastText).ok
    /\ ~(IsObj(LastPacket) /\ LastM.k = "str")

\* C14: an inbound frame that is JSON but has no string m is rejected as a
\* malformed envelope: after its rawPacket event the decoding fails, and
\* neither a packet event nor a typed event is emitted for it.
C14_MissingKindRejected ==
    LacksStringKind
        => /\ emitted = <<Ev("rawPacket", lastOp.a)>>
           /\ fault # "none"

-----------------------------------------------------------------------------
(* C15 *)

\* C15: an inbound frame of a recognized kind that has no c is decoded with an
\* empty payload: no fault, the packet event, then the typed event of the kind
\* with its fields absent, for Message, PrivateMessage and UserCount as for
\* Error, NewJWT and Success.  Stated for sessions where the error event has a
\* subscriber, so that the fault of C11 plays no part.
C15_MissingPayloadDecodedEmpty ==
    ( /\ WellFormedFrame
      /\ LastM.v[1] \in DocumentedKinds
      /\ ~HasKey(LastPacket.v, "c")
      /\ "error" \in listeners )
        => /\ fault = "none"
           /\ Len(emitted) = 3
           /\ emitted[2].name = "packet"
           /\ emitted[3].name = TypedName(LastM.v[1])
           /\ emitted[3].data \in { Undefined, Obj(<<>>),
                                    MappedPayload(LastM.v[1], Obj(<<>>)) }

-----------------------------------------------------------------------------
(* C16 *)

\* C16: for an inbound frame that is not JSON the session emits rawPacket
\* with the raw text, then the SyntaxError of the parse leaves the message
\* handler; neither a packet event nor a typed event is emitted for the frame.
C16_NotJsonFrame ==
    (lastOp.op = "message" /\ LastText \in MalformedTexts)
        => /\ emitted = <<Ev("rawPacket", Text(LastText))>>
           /\ fault = "SyntaxError"

C16_Witness ==
    /\ lastOp.op = "message"
    /\ lastOp.a = Text(<<LB, Str("m"), COLON, Str("Message")>>)
    /\ emitted = <<Ev("rawPacket", lastOp.a)>>
    /\ fault = "SyntaxError"

-----------------------------------------------------------------------------
(* C17 *)

\* C17: the send guard looks only at whether a handle is held: an outbound
\* operation called after connect() and before the open notification of the
\* handle does not fail with the missing-handle TypeError (NotConnected) and
\* hands exactly one frame to the send operation of the handle.
C17_SendBeforeOpen ==
    ( /\ lastOp.op \in OutboundOps
      /\ webSocket # 0
      /\ readyState[webSocket] = "CONNECTING" )
        => /\ fault # "TypeError"
           /\ Len(out) = 1
           /\ out[1].sock = webSocket
           /\ out[1].method = "send"

C17_Witness ==
    /\ lastOp.op = "sendMessage"
    /\ webSocket # 0
    /\ readyState[webSocket] = "CONNECTING"
    /\ Len(out) = 1
    /\ out[1].method = "send"
    /\ fault = "none"

-----------------------------------------------------------------------------
(* C18 *)

\* C18: connect() called while an earlier handle is bound stores the new
\* handle, calls nothing on the old one (no close), leaves every existing
\* handle's state alone and emits no event; every later outbound operation
\* sends to the newest handle only.
C18_ReconnectReplacesHandle ==
    /\ [] ( (lastOp.op = "connect" /\ nsock >= 2)
                => /\ webSocket = nsock
                   /\ out = <<>>
                   /\ emitted = <<>>
                   /\ fault = "none" )
    /\ [] ( (lastOp.op \in OutboundOps /\ nsock >= 2)
                => \A i \in DOMAIN out : out[i].sock = nsock )
    /\ [][ lastOp'.op = "connect"
               => \A s \in 1..nsock : readyState'[s] = readyState[s] ]_vars

C18_Witness ==
    /\ lastOp.op = "sendMessage"
    /\ nsock = 2
    /\ readyState[1] = "OPEN"
    /\ Len(out) = 1
    /\ out[1].sock = 2

-----------------------------------------------------------------------------
(* C19 *)

\* C19: every open event carries the handle whose open notification caused
\* it, in every interleaving of connect calls and transport notifications:
\* no open event without an open notification, and the open notification of
\* a first handle never gives an open event carrying a second handle that is
\* not open yet.
C19_OpenCarriesItsHandle ==
    /\ \A i \in DOMAIN emitted :
           emitted[i].name = "open" => lastOp.op = "open"
    /\ lastOp.op = "open"
           => /\ emitted = <<Ev("open", Handle(lastOp.b.v[1]))>>
              /\ readyState[emitted[1].data.v[1]] = "OPEN"

-----------------------------------------------------------------------------
(* C20 *)

\* A notification of the transport: a frame or the open of a handle.
InboundOps == {"message", "open"}

\* C20, as claimed: handling an inbound frame or an open notification never
\* changes the stored handle, never calls close or send on a transport; and
\* the frames handed to the transport are as many as the outbound operation
\* calls that did not fail: a call that hands a frame over does not fail and
\* a call that does not fail has handed over one frame.
C20_FramesEqualSuccessfulCalls ==
    /\ [] ( lastOp.op \in InboundOps => out = <<>> )
    /\ [] ( lastOp.op \in OutboundOps
                => /\ Len(out) <= 1
                   /\ (Len(out) = 1) <=> (fault = "none") )
    /\ [][ lastOp'.op \in InboundOps => UNCHANGED <<webSocket, nsock>> ]_vars

\* C20, amended: the same, the frames handed to the transport's send being,
\* for payloads that are JSON values, as many as the outbound operation calls
\* made while a handle is held, which are the calls that did not fail for
\* want of a handle (a call may still fail because the transport's send
\* refuses the frame it was handed).
C20_InboundHasNoSideEffect ==
    /\ [] ( lastOp.op \in InboundOps => out = <<>> )
    /\ [] ( lastOp.op \in OutboundOps
                => /\ Len(out) <= 1
                   /\ \A i \in DOMAIN out : out[i].method = "send"
                   /\ (Len(out) = 1) <=> (webSocket # 0)
                   /\ (Len(out) = 1) <=> (fault # "TypeError") )
    /\ [] ( lastOp.op \notin OutboundOps => out = <<>> )
    /\ [][ lastOp'.op \in InboundOps => UNCHANGED <<webSocket, nsock>> ]_vars

C20_Witness ==
    /\ lastOp.op = "message"
    /\ LastText = Stringify(Envelope(Str("Error"), ProperPayload("Error")))
    /\ webSocket # 0
    /\ readyState[webSocket] = "OPEN"
    /\ out = <<>>

====
